---- MODULE Spec2Model ----
(***************************************************************************)
(* Model of kworuu/logiparse, src/extractor.py: the regular-expression     *)
(* field extractor parse_invoice, the validator validate_extracted_data    *)
(* and the pipeline process_invoice.                                       *)
(*                                                                         *)
(* Texts are strings; a character is a string of length one.  Python       *)
(* values are tagged records: None, str and int are told apart by the      *)
(* field k.  Glyphs that are not part of the TLA+ lexicon are written in   *)
(* ASCII inside message strings: the cross mark as [x], the check mark as  *)
(* [v], the warning sign as [!], the dash as --, the not-equal sign as     *)
(* /=.                                                                     *)
(***************************************************************************)
EXTENDS Integers, Sequences, FiniteSets, TLC

VARIABLES
    pc,          \* where the call stands
    is_pdf,      \* process_invoice's flag
    source,      \* process_invoice's source: the text, or the path of a PDF
    pdf,         \* the file behind a PDF path: whether it opens, and its pages
    raw_text,    \* the text handed to parse_invoice
    parsed,      \* parse_invoice's result
    data,        \* the record handed to validate_extracted_data
    validation,  \* validate_extracted_data's result
    output       \* process_invoice's result

vars == <<pc, is_pdf, source, pdf, raw_text, parsed, data, validation, output>>

-----------------------------------------------------------------------------
(* Bounds of the inputs *)

\* lines in a text handed to process_invoice
MaxLines == 2
\* pages of a PDF
MaxPages == 2
\* instants datetime.now() may return
MaxNow == 2
\* line items of a record handed to validate_extracted_data
MaxItemsIn == 2
\* item lines in a text handed to parse_invoice
MaxItemLines == 12
\* how far around the preview length the demo invoice is cut
Margin == 20

-----------------------------------------------------------------------------
(* Python values *)

PyNone == [k |-> "none"]
PyStr(s) == [k |-> "str", v |-> s]
PyInt(n) == [k |-> "int", v |-> n]

\* Python truth value of None, a str or an int
Truthy(x) ==
    CASE x.k = "none" -> FALSE
      [] x.k = "str"  -> x.v # ""
      [] x.k = "int"  -> x.v # 0

-----------------------------------------------------------------------------
(* Characters *)

Ch(s, i) == SubSeq(s, i, i)
CharsOf(s) == {Ch(s, i) : i \in 1..Len(s)}

UpperStr == "ABCDEFGHIJKLMNOPQRSTUVWXYZ"
LowerStr == "abcdefghijklmnopqrstuvwxyz"
DigitStr == "0123456789"

UPPER == CharsOf(UpperStr)
LOWER == CharsOf(LowerStr)
DIGIT == CharsOf(DigitStr)
\* \s, and the characters str.strip() removes (ASCII)
WS == {" ", "\t", "\n", "\r", "\f"}
\* \w
WORD == UPPER \cup LOWER \cup DIGIT \cup {"_"}
\* [\d,\.]
NUMCH == DIGIT \cup {",", "."}

LowerMap == [c \in UPPER |-> Ch(LowerStr, CHOOSE i \in 1..26 : Ch(UpperStr, i) = c)]
UpperMap == [c \in LOWER |-> Ch(UpperStr, CHOOSE i \in 1..26 : Ch(LowerStr, i) = c)]
ToLower(c) == IF c \in UPPER THEN LowerMap[c] ELSE c
ToUpper(c) == IF c \in LOWER THEN UpperMap[c] ELSE c

\* does character c belong to the class S (under re.IGNORECASE when ic)
InClass(c, S, ic) ==
    \/ c \in S
    \/ ic /\ (ToLower(c) \in S \/ ToUpper(c) \in S)

-----------------------------------------------------------------------------
(* Regular expressions: the constructs the patterns of parse_invoice use,  *)
(* matched by backtracking in the order Python's re tries them.            *)

Lit(s) == [t |-> "lit", s |-> s]
\* a character class repeated greedily lo..hi times (hi = -1: no upper limit)
Rep(S, lo, hi) == [t |-> "cls", set |-> S, neg |-> FALSE, lo |-> lo, hi |-> hi]
NotRep(S, lo, hi) == [t |-> "cls", set |-> S, neg |-> TRUE, lo |-> lo, hi |-> hi]
Star(S) == Rep(S, 0, -1)
Plus(S) == Rep(S, 1, -1)
Cat(parts) == [t |-> "cat", parts |-> parts]
Alt(alts) == [t |-> "alt", alts |-> alts]
Grp(i, re) == [t |-> "grp", i |-> i, re |-> re]
Opt(re) == [t |-> "opt", re |-> re]

\* the literal lit occurs in txt at position p
LitAt(txt, p, lit, ic) ==
    /\ p + Len(lit) - 1 <= Len(txt)
    /\ \A i \in 1..Len(lit) :
          IF ic THEN ToLower(Ch(txt, p + i - 1)) = ToLower(Ch(lit, i))
                ELSE Ch(txt, p + i - 1) = Ch(lit, i)

\* number of consecutive characters from p on that the class accepts, at most hi
RECURSIVE RunLen(_, _, _, _, _)
RunLen(txt, p, cls, ic, n) ==
    IF /\ p <= Len(txt)
       /\ (cls.hi = -1 \/ n < cls.hi)
       /\ (InClass(Ch(txt, p), cls.set, ic) # cls.neg)
    THEN RunLen(txt, p + 1, cls, ic, n + 1)
    ELSE n

\* All ways re matches txt from position p on, in the order a backtracking
\* matcher tries them; each is the position after the match and the groups
\* (group i is <<first, past-last>>, <<0, 0>> when it took no part).
RECURSIVE Match(_, _, _, _, _)
RECURSIVE MatchCat(_, _, _, _, _)
RECURSIVE MatchAlt(_, _, _, _, _, _)
RECURSIVE MatchEach(_, _, _, _, _)

Match(re, txt, p, g, ic) ==
    CASE re.t = "lit" ->
           IF LitAt(txt, p, re.s, ic) THEN <<[e |-> p + Len(re.s), g |-> g]>> ELSE <<>>
      [] re.t = "cls" ->
           LET r == RunLen(txt, p, re, ic, 0)
           IN  IF r < re.lo THEN <<>>
               ELSE [j \in 1..(r - re.lo + 1) |-> [e |-> p + r - j + 1, g |-> g]]
      [] re.t = "cat" -> MatchCat(re.parts, 1, txt, <<[e |-> p, g |-> g]>>, ic)
      [] re.t = "alt" -> MatchAlt(re.alts, 1, txt, p, g, ic)
      [] re.t = "grp" ->
           LET rs == Match(re.re, txt, p, g, ic)
           IN  [j \in 1..Len(rs) |->
                  [e |-> rs[j].e, g |-> [rs[j].g EXCEPT ![re.i] = <<p, rs[j].e>>]]]
      [] re.t = "opt" -> Match(re.re, txt, p, g, ic) \o <<[e |-> p, g |-> g]>>

\* continue each partial match of rs with re
MatchEach(re, txt, rs, j, ic) ==
    IF j > Len(rs) THEN <<>>
    ELSE Match(re, txt, rs[j].e, rs[j].g, ic) \o MatchEach(re, txt, rs, j + 1, ic)

MatchCat(parts, i, txt, rs, ic) ==
    IF i > Len(parts) \/ rs = <<>> THEN rs
    ELSE MatchCat(parts, i + 1, txt, MatchEach(parts[i], txt, rs, 1, ic), ic)

MatchAlt(alts, i, txt, p, g, ic) ==
    IF i > Len(alts) THEN <<>>
    ELSE Match(alts[i], txt, p, g, ic) \o MatchAlt(alts, i + 1, txt, p, g, ic)

NoGroups(n) == [i \in 1..n |-> <<0, 0>>]

\* the first match of re starting at p, or a record with ok = FALSE
MatchAt(re, ng, txt, p, ic) ==
    LET rs == Match(re, txt, p, NoGroups(ng), ic)
    IN  IF rs = <<>> THEN [ok |-> FALSE]
        ELSE [ok |-> TRUE, s |-> p, e |-> rs[1].e, g |-> rs[1].g]

\* re.search from position p on: the match at the leftmost position that has one
SearchFrom(re, ng, txt, p, ic) ==
    LET starts == {q \in p..(Len(txt) + 1) : MatchAt(re, ng, txt, q, ic).ok}
    IN  IF starts = {} THEN [ok |-> FALSE]
        ELSE MatchAt(re, ng, txt, CHOOSE q \in starts : \A r \in starts : q <= r, ic)

Search(re, ng, txt, ic) == SearchFrom(re, ng, txt, 1, ic)

\* re.findall: the non-overlapping matches, left to right
RECURSIVE FindAllFrom(_, _, _, _, _)
FindAllFrom(re, ng, txt, p, ic) ==
    LET m == SearchFrom(re, ng, txt, p, ic)
    IN  IF ~m.ok THEN <<>>
        ELSE <<m>> \o FindAllFrom(re, ng, txt, IF m.e = m.s THEN m.e + 1 ELSE m.e, ic)

FindAll(re, ng, txt, ic) == FindAllFrom(re, ng, txt, 1, ic)

\* match.group(i): None for a group that took no part in the match
Group(txt, m, i) ==
    IF m.g[i][1] = 0 THEN PyNone ELSE PyStr(SubSeq(txt, m.g[i][1], m.g[i][2] - 1))

-----------------------------------------------------------------------------
(* str methods *)

RECURSIVE LStrip(_)
LStrip(s) == IF s # "" /\ Ch(s, 1) \in WS THEN LStrip(SubSeq(s, 2, Len(s))) ELSE s
RECURSIVE RStrip(_)
RStrip(s) == IF s # "" /\ Ch(s, Len(s)) \in WS THEN RStrip(SubSeq(s, 1, Len(s) - 1)) ELSE s
\* s.strip()
Strip(s) == RStrip(LStrip(s))

\* s.replace(",", "")
RECURSIVE RemoveCommas(_)
RemoveCommas(s) ==
    IF s = "" THEN ""
    ELSE (IF Ch(s, 1) = "," THEN "" ELSE Ch(s, 1)) \o RemoveCommas(SubSeq(s, 2, Len(s)))

\* sub in s
Contains(s, sub) ==
    \E i \in 1..(Len(s) - Len(sub) + 1) : SubSeq(s, i, i + Len(sub) - 1) = sub

DigitVal(c) == (CHOOSE i \in 1..10 : Ch(DigitStr, i) = c) - 1

\* int(s) for a string of decimal digits
RECURSIVE IntOfDigits(_)
IntOfDigits(s) ==
    IF s = "" THEN 0
    ELSE 10 * IntOfDigits(SubSeq(s, 1, Len(s) - 1)) + DigitVal(Ch(s, Len(s)))

-----------------------------------------------------------------------------
(* The patterns of parse_invoice *)

Lits(ss) == Alt([i \in 1..Len(ss) |-> Lit(ss[i])])

\* (?:invoice\s*(?:no\.?|number|#|num)[:\s#]+)([A-Z0-9\-\/]+)
inv_pattern ==
    Cat(<<Lit("invoice"), Star(WS),
          Alt(<<Cat(<<Lit("no"), Rep({"."}, 0, 1)>>), Lit("number"), Lit("#"), Lit("num")>>),
          Plus(WS \cup {":", "#"}),
          Grp(1, Plus(UPPER \cup DIGIT \cup {"-", "/"}))>>)

DATESEP == {"/", "-", "."}
MonthNames == <<"Jan", "Feb", "Mar", "Apr", "May", "Jun",
                "Jul", "Aug", "Sep", "Oct", "Nov", "Dec">>

\* (?:date|dated|issued)[:\s]*(D/M/Y | Y/M/D | Mon D, YYYY)
date_pattern ==
    Cat(<<Lits(<<"date", "dated", "issued">>), Star(WS \cup {":"}),
          Grp(1, Alt(<<
             Cat(<<Rep(DIGIT, 1, 2), Rep(DATESEP, 1, 1), Rep(DIGIT, 1, 2),
                   Rep(DATESEP, 1, 1), Rep(DIGIT, 2, 4)>>),
             Cat(<<Rep(DIGIT, 4, 4), Rep(DATESEP, 1, 1), Rep(DIGIT, 1, 2),
                   Rep(DATESEP, 1, 1), Rep(DIGIT, 1, 2)>>),
             Cat(<<Lits(MonthNames), Star(WORD), Plus(WS), Rep(DIGIT, 1, 2),
                   Rep({","}, 0, 1), Plus(WS), Rep(DIGIT, 4, 4)>>)>>))>>)

\* (?:from|sender|shipper|consignor)[:\s]+([^\n,]+)
sender_pattern ==
    Cat(<<Lits(<<"from", "sender", "shipper", "consignor">>), Plus(WS \cup {":"}),
          Grp(1, NotRep({"\n", ","}, 1, -1))>>)

\* (?:to|receiver|recipient|consignee|billed\s+to|deliver\s+to)[:\s]+([^\n,]+)
receiver_pattern ==
    Cat(<<Alt(<<Lit("to"), Lit("receiver"), Lit("recipient"), Lit("consignee"),
                Cat(<<Lit("billed"), Plus(WS), Lit("to")>>),
                Cat(<<Lit("deliver"), Plus(WS), Lit("to")>>)>>),
          Plus(WS \cup {":"}),
          Grp(1, NotRep({"\n", ","}, 1, -1))>>)

\* (?:total\s+)?weight[:\s]*([\d,\.]+)\s*(kg|lbs?|g|tons?)?
weight_pattern ==
    Cat(<<Opt(Cat(<<Lit("total"), Plus(WS)>>)), Lit("weight"), Star(WS \cup {":"}),
          Grp(1, Plus(NUMCH)), Star(WS),
          Opt(Grp(2, Alt(<<Lit("kg"), Cat(<<Lit("lb"), Rep({"s"}, 0, 1)>>), Lit("g"),
                           Cat(<<Lit("ton"), Rep({"s"}, 0, 1)>>)>>)))>>)

\* (?:total|grand\s+total|amount\s+due|total\s+amount)[:\s]*(PHP|P|\$|USD|EUR)?\s*([\d,\.]+)
\* (the second currency token is the peso sign)
amount_pattern ==
    Cat(<<Alt(<<Lit("total"),
                Cat(<<Lit("grand"), Plus(WS), Lit("total")>>),
                Cat(<<Lit("amount"), Plus(WS), Lit("due")>>),
                Cat(<<Lit("total"), Plus(WS), Lit("amount")>>)>>),
          Star(WS \cup {":"}),
          Opt(Grp(1, Lits(<<"PHP", "₱", "$", "USD", "EUR">>))),
          Star(WS),
          Grp(2, Plus(NUMCH))>>)

\* (?:tracking\s*(?:no|number|#)|waybill\s*(?:no|number|#))[:\s#]*([A-Z0-9\-]+)
tracking_pattern ==
    Cat(<<Alt(<<Cat(<<Lit("tracking"), Star(WS), Lits(<<"no", "number", "#">>)>>),
                Cat(<<Lit("waybill"), Star(WS), Lits(<<"no", "number", "#">>)>>)>>),
          Star(WS \cup {":", "#"}),
          Grp(1, Plus(UPPER \cup DIGIT \cup {"-"}))>>)

\* ([A-Za-z][A-Za-z0-9\s\-]{2,30})\s+(\d+)\s+([\d,\.]+)\s+([\d,\.]+)
item_pattern ==
    Cat(<<Grp(1, Cat(<<Rep(UPPER \cup LOWER, 1, 1),
                       Rep(UPPER \cup LOWER \cup DIGIT \cup WS \cup {"-"}, 2, 30)>>)),
          Plus(WS), Grp(2, Plus(DIGIT)),
          Plus(WS), Grp(3, Plus(NUMCH)),
          Plus(WS), Grp(4, Plus(NUMCH))>>)

-----------------------------------------------------------------------------
(* parse_invoice *)

\* Preview without the marker appended to a cut text
Preview_NoEllipsis(text) ==
    IF Len(text) > 300 THEN SubSeq(text, 1, 300) ELSE text

\* text[:300] + "..." if len(text) > 300 else text
Preview(text) ==
    IF Len(text) > 300 THEN SubSeq(text, 1, 300) \o "..." ELSE text

\* match.group(i).strip() when the search matched, else the initial None
StrippedGroup(text, m, i) ==
    IF m.ok THEN PyStr(Strip(Group(text, m, i).v)) ELSE PyNone

\* the dictionary appended for one match of item_pattern
ItemOf(text, m) ==
    [description |-> PyStr(Strip(Group(text, m, 1).v)),
     quantity    |-> PyInt(IntOfDigits(Group(text, m, 2).v)),
     unit_price  |-> PyStr(RemoveCommas(Group(text, m, 3).v)),
     line_total  |-> PyStr(RemoveCommas(Group(text, m, 4).v))]

\* ItemsOf without the [:10] slice
ItemsOf_NoCap(text) ==
    LET ms == FindAll(item_pattern, 4, text, FALSE)
    IN  [i \in 1..Len(ms) |-> ItemOf(text, ms[i])]

\* for match in item_pattern[:10]: result["items"].append(...)
ItemsOf(text) ==
    LET ms == FindAll(item_pattern, 4, text, FALSE)
        n  == IF Len(ms) < 10 THEN Len(ms) ELSE 10
    IN  [i \in 1..n |-> ItemOf(text, ms[i])]

parse_invoice(text) ==
    LET weight_match == Search(weight_pattern, 2, text, TRUE)
        amount_match == Search(amount_pattern, 2, text, TRUE)
    IN  [invoice_number |-> StrippedGroup(text, Search(inv_pattern, 1, text, TRUE), 1),
         date     |-> StrippedGroup(text, Search(date_pattern, 1, text, TRUE), 1),
         sender   |-> StrippedGroup(text, Search(sender_pattern, 1, text, TRUE), 1),
         receiver |-> StrippedGroup(text, Search(receiver_pattern, 1, text, TRUE), 1),
         total_weight |->
            IF weight_match.ok
            THEN LET unit == IF Truthy(Group(text, weight_match, 2))
                             THEN Group(text, weight_match, 2).v ELSE "kg"
                 IN  PyStr(Strip(Group(text, weight_match, 1).v) \o " " \o unit)
            ELSE PyNone,
         total_amount |->
            IF amount_match.ok
            THEN PyStr(Strip(RemoveCommas(Group(text, amount_match, 2).v)))
            ELSE PyNone,
         currency |->
            IF amount_match.ok
            THEN (IF Truthy(Group(text, amount_match, 1))
                  THEN Group(text, amount_match, 1) ELSE PyStr("PHP"))
            ELSE PyNone,
         items |-> ItemsOf(text),
         tracking_number |-> StrippedGroup(text, Search(tracking_pattern, 1, text, TRUE), 1),
         raw_text_preview |-> Preview(text)]

\* the demo invoice of the command-line entry point
sample_invoice ==
    "\n    LOGISTICS INVOICE\n    Invoice No: INV-2024-00892\n"
    \o "    Date: February 20, 2024\n    Tracking No: TRK-PH-44821\n\n"
    \o "    From: ABC Warehousing Corp., Mandaue City, Cebu\n"
    \o "    To: XYZ Retail Store, Makati City, Metro Manila\n\n"
    \o "    Items:\n"
    \o "    Industrial Fan Motor     2    1500.00    3000.00\n"
    \o "    Conveyor Belt Segment    5     800.00    4000.00\n"
    \o "    Safety Gloves (box)     10     250.00    2500.00\n\n"
    \o "    Total Weight: 45.5 kg\n    Total Amount: PHP 9,500.00\n    "

-----------------------------------------------------------------------------
(* float(), on decimal numerals: an optional sign, digits and at most one  *)
(* point.  A value is the exact decimal m / 10^k.  Exponents, underscores, *)
(* inf and nan are not among the modelled inputs.                          *)

RECURSIVE Pow10(_)
Pow10(n) == IF n = 0 THEN 1 ELSE 10 * Pow10(n - 1)

RECURSIVE RemoveChar(_, _)
RemoveChar(s, c) ==
    IF s = "" THEN ""
    ELSE (IF Ch(s, 1) = c THEN "" ELSE Ch(s, 1)) \o RemoveChar(SubSeq(s, 2, Len(s)), c)

\* the numeral after the sign: digits with at most one point, at least one digit
IsDecimal(s) ==
    /\ \A i \in 1..Len(s) : Ch(s, i) \in DIGIT \cup {"."}
    /\ Cardinality({i \in 1..Len(s) : Ch(s, i) = "."}) <= 1
    /\ \E i \in 1..Len(s) : Ch(s, i) \in DIGIT

DecimalOf(s, sign) ==
    LET dots == {i \in 1..Len(s) : Ch(s, i) = "."}
        k == IF dots = {} THEN 0 ELSE Len(s) - (CHOOSE i \in dots : TRUE)
    IN  [exc |-> "", m |-> sign * IntOfDigits(RemoveChar(s, ".")), k |-> k]

\* float(x): a value, or the exception it raises
Float(x) ==
    CASE x.k = "none" -> [exc |-> "TypeError"]
      [] x.k = "int"  -> [exc |-> "", m |-> x.v, k |-> 0]
      [] x.k = "str"  ->
           LET s == Strip(x.v)
               signed == s # "" /\ Ch(s, 1) \in {"+", "-"}
               body == IF signed THEN SubSeq(s, 2, Len(s)) ELSE s
           IN  IF IsDecimal(body)
               THEN DecimalOf(body, IF signed /\ Ch(s, 1) = "-" THEN -1 ELSE 1)
               ELSE [exc |-> "ValueError"]

Times(a, b) == [exc |-> "", m |-> a.m * b.m, k |-> a.k + b.k]

\* abs(a - b) > 0.5
DiffersByMoreThanHalf(a, b) ==
    LET K == IF a.k > b.k THEN a.k ELSE b.k
        d == a.m * Pow10(K - a.k) - b.m * Pow10(K - b.k)
    IN  2 * (IF d < 0 THEN -d ELSE d) > Pow10(K)

\* str(n) for an integer n >= 0
RECURSIVE IntToStr(_)
IntToStr(n) ==
    IF n < 10 THEN Ch(DigitStr, n + 1)
    ELSE IntToStr(n \div 10) \o Ch(DigitStr, (n % 10) + 1)

\* f"{a:.2f}": two fraction digits, ties of the decimal value to even
Fmt2(a) ==
    LET neg == a.m < 0
        am == IF neg THEN -a.m ELSE a.m
        cents == IF a.k <= 2 THEN am * Pow10(2 - a.k)
                 ELSE LET d == Pow10(a.k - 2)
                          q == am \div d
                          r == am % d
                      IN  IF 2 * r > d \/ (2 * r = d /\ q % 2 = 1) THEN q + 1 ELSE q
        frac == cents % 100
    IN  (IF neg /\ cents # 0 THEN "-" ELSE "") \o IntToStr(cents \div 100) \o "."
        \o (IF frac < 10 THEN "0" ELSE "") \o IntToStr(frac)

\* how an f-string renders a value
Format(x) ==
    CASE x.k = "none" -> "None"
      [] x.k = "str"  -> x.v
      [] x.k = "int"  -> (IF x.v < 0 THEN "-" ELSE "") \o IntToStr(IF x.v < 0 THEN -x.v ELSE x.v)

-----------------------------------------------------------------------------
(* validate_extracted_data *)

MsgNoInvoice == "[x] Invoice number not found"
MsgNoDate == "[!]  Date not detected -- may be missing or in unusual format"
MsgNoSender == "[!]  Sender/Shipper not found"
MsgNoReceiver == "[!]  Receiver/Consignee not found"
MsgNoAmount == "[x] Total amount not found"
MsgAmountNotPositive == "[x] Total amount is zero or negative -- suspicious"
MsgAmountInvalid == "[x] Total amount is not a valid number"
StatusPass == "PASS [v]"
StatusFail == "FAIL [x]"

LineItemMsg(description, calc, stated) ==
    "[x] Line item '" \o Format(description) \o "': Qty × UnitPrice (" \o Fmt2(calc)
    \o ") /= LineTotal (" \o Fmt2(stated) \o ")"

\* AmountIssues with the missing-amount branch reporting nothing
AmountIssues_NoMissingCheck(total_amount) ==
    IF ~Truthy(total_amount) THEN <<>>
    ELSE LET val == Float(total_amount)
         IN  IF val.exc = "ValueError" THEN <<MsgAmountInvalid>>
             ELSE IF val.m <= 0 THEN <<MsgAmountNotPositive>>
             ELSE <<>>

\* the issues raised on total_amount
AmountIssues(total_amount) ==
    IF ~Truthy(total_amount) THEN <<MsgNoAmount>>
    ELSE LET val == Float(total_amount)
         IN  IF val.exc = "ValueError" THEN <<MsgAmountInvalid>>
             ELSE IF val.m <= 0 THEN <<MsgAmountNotPositive>>
             ELSE <<>>

\* The body of the try block for one line item: the issues it appends, and
\* the exception that leaves the except clause (ValueError, KeyError), if any.
ItemCheck(item) ==
    IF "quantity" \notin DOMAIN item THEN [exc |-> "", issues |-> <<>>]
    ELSE LET q == Float(item.quantity) IN
    IF q.exc = "TypeError" THEN [exc |-> "TypeError", issues |-> <<>>]
    ELSE IF q.exc = "ValueError" THEN [exc |-> "", issues |-> <<>>]
    ELSE IF "unit_price" \notin DOMAIN item THEN [exc |-> "", issues |-> <<>>]
    ELSE LET u == Float(item.unit_price) IN
    IF u.exc = "TypeError" THEN [exc |-> "TypeError", issues |-> <<>>]
    ELSE IF u.exc = "ValueError" THEN [exc |-> "", issues |-> <<>>]
    ELSE IF "line_total" \notin DOMAIN item THEN [exc |-> "", issues |-> <<>>]
    ELSE LET stated == Float(item.line_total) IN
    IF stated.exc = "TypeError" THEN [exc |-> "TypeError", issues |-> <<>>]
    ELSE IF stated.exc = "ValueError" THEN [exc |-> "", issues |-> <<>>]
    ELSE IF ~DiffersByMoreThanHalf(Times(q, u), stated) THEN [exc |-> "", issues |-> <<>>]
    ELSE IF "description" \notin DOMAIN item THEN [exc |-> "", issues |-> <<>>]
    ELSE [exc |-> "", issues |-> <<LineItemMsg(item.description, Times(q, u), stated)>>]

\* the loop over data["items"], from item i on
RECURSIVE ItemsLoop(_, _)
ItemsLoop(items, i) ==
    IF i > Len(items) THEN [exc |-> "", issues |-> <<>>]
    ELSE LET c == ItemCheck(items[i])
         IN  IF c.exc # "" THEN c
             ELSE LET rest == ItemsLoop(items, i + 1)
                  IN  [exc |-> rest.exc, issues |-> c.issues \o rest.issues]

KeyFields(d) == <<d.invoice_number, d.date, d.sender, d.receiver, d.total_amount>>

\* CoverageCount with "if v is not None" in place of "if v"
CoverageCount_NotNone(d) == Cardinality({i \in 1..5 : KeyFields(d)[i] # PyNone})

\* sum(1 for v in [...] if v)
CoverageCount(d) == Cardinality({i \in 1..5 : Truthy(KeyFields(d)[i])})

\* StatusOf with the "not" dropped
StatusOf_Inverted(issues) == IF issues # <<>> THEN StatusPass ELSE StatusFail

\* "PASS" if not issues else "FAIL"
StatusOf(issues) == IF issues = <<>> THEN StatusPass ELSE StatusFail

\* the report, or the exception that leaves the function
validate_extracted_data(d) ==
    LET loop == ItemsLoop(d.items, 1)
        issues == (IF ~Truthy(d.invoice_number) THEN <<MsgNoInvoice>> ELSE <<>>)
                  \o AmountIssues(d.total_amount) \o loop.issues
        warnings == (IF ~Truthy(d.date) THEN <<MsgNoDate>> ELSE <<>>)
                    \o (IF ~Truthy(d.sender) THEN <<MsgNoSender>> ELSE <<>>)
                    \o (IF ~Truthy(d.receiver) THEN <<MsgNoReceiver>> ELSE <<>>)
    IN  IF loop.exc # "" THEN [exc |-> loop.exc]
        ELSE [exc |-> "",
              status |-> StatusOf(issues),
              issues |-> issues,
              warnings |-> warnings,
              field_coverage |-> IntToStr(CoverageCount(d)) \o "/5 key fields extracted"]

-----------------------------------------------------------------------------
(* process_invoice *)

\* extract_text_from_pdf on a file that opens: the pages' texts, in page order
RECURSIVE JoinPages(_)
JoinPages(pages) ==
    IF pages = <<>> THEN "" ELSE Head(pages) \o JoinPages(Tail(pages))

\* SourceType with the text label in upper case
SourceType_Upper(flag) == IF flag THEN "PDF" ELSE "TEXT"

\* "PDF" if is_pdf else "Text"
SourceType(flag) == IF flag THEN "PDF" ELSE "Text"

\* if is_pdf: raw_text = extract_text_from_pdf(source); else: raw_text = source
\* fitz.open raises on a file it cannot open, and nothing catches it.
Read ==
    /\ pc = "Start"
    /\ IF is_pdf
       THEN IF pdf.ok
            THEN raw_text' = JoinPages(pdf.pages) /\ pc' = "Read"
            ELSE pc' = "Raised" /\ UNCHANGED raw_text
       ELSE raw_text' = source /\ pc' = "Read"
    /\ UNCHANGED <<is_pdf, source, pdf, parsed, data, validation, output>>

\* parsed = parse_invoice(raw_text)
Extract ==
    /\ pc = "Read"
    /\ parsed' = parse_invoice(raw_text)
    /\ pc' = "Extract"
    /\ UNCHANGED <<is_pdf, source, pdf, raw_text, data, validation, output>>

\* validation = validate_extracted_data(parsed)
Validate ==
    /\ pc = "Extract"
    /\ data' = parsed
    /\ validation' = validate_extracted_data(parsed)
    /\ pc' = IF validation'.exc = "" THEN "Validate" ELSE "Raised"
    /\ UNCHANGED <<is_pdf, source, pdf, raw_text, parsed, output>>

\* output = {...}; return output.  datetime.now() is some instant.
Return ==
    /\ pc = "Validate"
    /\ \E now \in 1..MaxNow :
          output' = [metadata |-> [processed_at |-> now,
                                   source_type |-> SourceType(is_pdf)],
                     extracted_data |-> parsed,
                     validation_report |-> validation]
    /\ pc' = "Done"
    /\ UNCHANGED <<is_pdf, source, pdf, raw_text, parsed, data, validation>>

\* The texts handed to process_invoice: the demo invoice, and up to MaxLines
\* lines of a small invoice vocabulary.
Lines ==
    <<"Invoice No: A-1\n", "Date: 1/2/24\n", "From: Bob\n", "From: ,\n", "To: Al\n",
      "Total: 9,500.00\n", "Total: ,\n", "Fan Motor 2 1.50 3.00\n",
      "Gloves 10 2.50 2.00\n">>

RECURSIVE Join(_, _)
Join(lines, idx) ==
    IF idx = <<>> THEN "" ELSE lines[Head(idx)] \o Join(lines, Tail(idx))

SeqsUpTo(S, n) == UNION {[1..m -> S] : m \in 0..n}

Texts == {sample_invoice} \cup {Join(Lines, idx) : idx \in SeqsUpTo(1..Len(Lines), MaxLines)}

Pages == <<"Invoice No: A-1\nDate: 1/2/24\n", "Total: PHP 5.00\n">>

PdfFiles ==
    {[ok |-> FALSE, pages |-> <<>>]}
    \cup {[ok |-> TRUE, pages |-> [i \in 1..Len(idx) |-> Pages[idx[i]]]] :
             idx \in SeqsUpTo(1..Len(Pages), MaxPages)}

NoFile == [ok |-> FALSE, pages |-> <<>>]

Init ==
    /\ pc = "Start"
    /\ \/ is_pdf = FALSE /\ source \in Texts /\ pdf = NoFile
       \/ is_pdf = TRUE /\ source = "invoice.pdf" /\ pdf \in PdfFiles
    /\ raw_text = ""
    /\ parsed = PyNone
    /\ data = PyNone
    /\ validation = PyNone
    /\ output = PyNone

Next == Read \/ Extract \/ Validate \/ Return

Spec == Init /\ [][Next]_vars

-----------------------------------------------------------------------------
(* validate_extracted_data called on its own, on any record *)

ItemPool ==
    {[description |-> PyStr("Fan"), quantity |-> PyInt(2),
      unit_price |-> PyStr("1.50"), line_total |-> PyStr("3.00")],
     [description |-> PyStr("Belt"), quantity |-> PyInt(5),
      unit_price |-> PyStr("8.00"), line_total |-> PyStr("40.40")],
     [description |-> PyStr("Gloves"), quantity |-> PyStr("10"),
      unit_price |-> PyStr("2.50"), line_total |-> PyStr("20.00")],
     [description |-> PyStr("Pump"), quantity |-> PyInt(1),
      unit_price |-> PyStr("1,200.00"), line_total |-> PyStr("9.00")],
     [description |-> PyStr("Valve"), quantity |-> PyInt(3),
      unit_price |-> PyStr("2.00")],
     [description |-> PyStr("Hose"), quantity |-> PyInt(4),
      unit_price |-> PyNone, line_total |-> PyStr("1.00")]}

Amounts ==
    {PyNone, PyStr(""), PyStr("9500.00"), PyStr("9,500.00"), PyStr("0.00"),
     PyStr("-5"), PyStr("abc")}

Records ==
    [invoice_number : {PyNone, PyStr("A-1")},
     date : {PyNone, PyStr("1/2/24")},
     sender : {PyNone, PyStr(""), PyStr("Bob")},
     receiver : {PyNone, PyStr("Al")},
     total_weight : {PyNone},
     total_amount : Amounts,
     currency : {PyNone},
     items : SeqsUpTo(ItemPool, MaxItemsIn),
     tracking_number : {PyNone},
     raw_text_preview : {""}]

CallValidate ==
    /\ pc = "ValidateCall"
    /\ validation' = validate_extracted_data(data)
    /\ pc' = IF validation'.exc = "" THEN "ValidateReturned" ELSE "ValidateRaised"
    /\ UNCHANGED <<is_pdf, source, pdf, raw_text, parsed, data, output>>

InitValidate ==
    /\ pc = "ValidateCall"
    /\ data \in Records
    /\ is_pdf = FALSE /\ source = "" /\ pdf = NoFile /\ raw_text = ""
    /\ parsed = PyNone /\ validation = PyNone /\ output = PyNone

NextValidate == CallValidate

SpecValidate == InitValidate /\ [][NextValidate]_vars

-----------------------------------------------------------------------------
(* parse_invoice called on its own *)

ItemLines ==
    <<"Fan Motor 2 1.50 3.00\n", "Pump A-1   1  1,200.00  1,200.00\n",
      "Safety Gloves 10 2.50 25.00\n">>

\* k item lines, taken in turn from ItemLines starting after line j
RECURSIVE ItemText(_, _)
ItemText(k, j) ==
    IF k = 0 THEN "" ELSE ItemText(k - 1, j) \o ItemLines[((k + j) % Len(ItemLines)) + 1]

\* the demo invoice cut around the preview length, and texts of many item lines
ParseTexts ==
    {SubSeq(sample_invoice, 1, n) : n \in (300 - Margin)..(300 + Margin)}
    \cup {ItemText(k, j) : k \in 0..MaxItemLines, j \in 1..Len(ItemLines)}

CallParse ==
    /\ pc = "ParseCall"
    /\ parsed' = parse_invoice(raw_text)
    /\ pc' = "ParseReturned"
    /\ UNCHANGED <<is_pdf, source, pdf, raw_text, data, validation, output>>

InitParse ==
    /\ pc = "ParseCall"
    /\ raw_text \in ParseTexts
    /\ is_pdf = FALSE /\ source = "" /\ pdf = NoFile
    /\ parsed = PyNone /\ data = PyNone /\ validation = PyNone /\ output = PyNone

NextParse == CallParse

SpecParse == InitParse /\ [][NextParse]_vars

-----------------------------------------------------------------------------
(* Properties *)

Range(q) == {q[i] : i \in 1..Len(q)}
Count(q, x) == Cardinality({i \in 1..Len(q) : q[i] = x})
Min(a, b) == IF a < b THEN a ELSE b
\* app.py reads the status with: "PASS" in status
IsPass(status) == Contains(status, "PASS")
IsFail(status) == Contains(status, "FAIL")
CoverageText(n) == IntToStr(n) \o "/5 key fields extracted"

\* C1: whenever validate_extracted_data returns a report, its status is FAIL
\* exactly when its issues list is non-empty and PASS exactly when it is
\* empty, whatever the warnings are.
C1_StatusIffIssues ==
    pc = "ValidateReturned" =>
       /\ IsFail(validation.status) <=> validation.issues # <<>>
       /\ IsPass(validation.status) <=> validation.issues = <<>>
       /\ IsPass(validation.status) # IsFail(validation.status)

\* a report with all three warnings and no issue, which passes
C1_Witness ==
    /\ pc = "ValidateReturned"
    /\ Len(validation.warnings) = 3
    /\ validation.issues = <<>>
    /\ IsPass(validation.status)

\* C2: no failure leaves process_invoice: the call never ends in an
\* exception, for a text source or a PDF source.
C2_NoFailurePropagates == pc # "Raised"

\* C3 as stated: the number in field_coverage is the count of non-null
\* values among the five key fields.
C3_CountsNonNull ==
    pc = "Done" =>
       validation.field_coverage =
          CoverageText(Cardinality({i \in 1..5 : KeyFields(parsed)[i] # PyNone}))

\* C3 as amended: the number in field_coverage is the count of the key
\* fields that are neither null nor the empty string, and lies in 0..5.
C3_CountsNonEmpty ==
    pc = "Done" =>
       \E n \in 0..5 :
          /\ n = Cardinality({i \in 1..5 : KeyFields(parsed)[i] \notin {PyNone, PyStr("")}})
          /\ validation.field_coverage = CoverageText(n)

\* a sender that is present but empty, which the coverage does not count
C3_Witness ==
    /\ pc = "Done"
    /\ parsed.sender = PyStr("")
    /\ parsed.invoice_number # PyNone
    /\ validation.field_coverage = CoverageText(1)

\* C4: for a record whose total_amount is None, the returned issues hold
\* "Total amount not found" exactly once and no other total-amount issue,
\* and the status is FAIL.
C4_MissingAmount ==
    pc = "ValidateReturned" /\ data.total_amount = PyNone =>
       /\ Count(validation.issues, MsgNoAmount) = 1
       /\ MsgAmountInvalid \notin Range(validation.issues)
       /\ MsgAmountNotPositive \notin Range(validation.issues)
       /\ IsFail(validation.status)

\* a record without amount whose other fields and line items raise nothing
C4_Witness ==
    /\ pc = "ValidateReturned"
    /\ data.total_amount = PyNone
    /\ data.invoice_number # PyNone
    /\ data.items # <<>>
    /\ validation.issues = <<MsgNoAmount>>

\* C5: a present total_amount is judged after its thousands separators are
\* removed: "not a valid number" exactly when the stripped text is no
\* number, "zero or negative" exactly when it is a number <= 0.
C5_SeparatorsRemoved ==
    pc = "ValidateReturned" /\ Truthy(data.total_amount) =>
       LET val == Float(PyStr(RemoveCommas(data.total_amount.v)))
       IN  /\ MsgAmountInvalid \in Range(validation.issues) <=> val.exc = "ValueError"
           /\ MsgAmountNotPositive \in Range(validation.issues)
                 <=> (val.exc = "" /\ val.m <= 0)
           /\ MsgNoAmount \notin Range(validation.issues)

\* an item whose three numeric subfields are there and parse as numbers
Parseable(item) ==
    /\ {"quantity", "unit_price", "line_total"} \subseteq DOMAIN item
    /\ Float(item.quantity).exc = ""
    /\ Float(item.unit_price).exc = ""
    /\ Float(item.line_total).exc = ""

\* the line-item issues C6 expects, from item i on
RECURSIVE ExpectedLineIssues(_, _)
ExpectedLineIssues(items, i) ==
    IF i > Len(items) THEN <<>>
    ELSE (IF /\ Parseable(items[i])
             /\ DiffersByMoreThanHalf(Times(Float(items[i].quantity),
                                            Float(items[i].unit_price)),
                                      Float(items[i].line_total))
          THEN <<LineItemMsg(items[i].description,
                             Times(Float(items[i].quantity), Float(items[i].unit_price)),
                             Float(items[i].line_total))>>
          ELSE <<>>)
         \o ExpectedLineIssues(items, i + 1)

IsLineIssue(msg) ==
    msg \notin {MsgNoInvoice, MsgNoAmount, MsgAmountInvalid, MsgAmountNotPositive}

\* C6: the call raises nothing, and the line-item issues are one per item,
\* in item order, for the items that parse and are off by more than 0.5;
\* an item with a missing, null or unparseable subfield adds nothing.
C6_LineItemIssues ==
    pc \in {"ValidateReturned", "ValidateRaised"} =>
       /\ pc = "ValidateReturned"
       /\ SelectSeq(validation.issues, IsLineIssue) = ExpectedLineIssues(data.items, 1)

\* C7: the demo invoice yields the stated fields, three line items, PASS
\* and full coverage.
C7_ScenarioA ==
    pc = "Done" /\ ~is_pdf /\ source = sample_invoice =>
       /\ parsed.invoice_number = PyStr("INV-2024-00892")
       /\ parsed.tracking_number = PyStr("TRK-PH-44821")
       /\ parsed.total_weight = PyStr("45.5 kg")
       /\ parsed.total_amount = PyStr("9500.00")
       /\ parsed.currency = PyStr("PHP")
       /\ Len(parsed.items) = 3
       /\ [i \in 1..3 |-> parsed.items[i].description]
             = <<PyStr("Industrial Fan Motor"), PyStr("Conveyor Belt Segment"),
                 PyStr("Safety Gloves (box)")>>
       /\ IsPass(validation.status)
       /\ validation.field_coverage = CoverageText(5)

\* C8 as stated: source_type is the source kind in upper case.
C8_UpperCase ==
    pc = "Done" =>
       /\ output.metadata.source_type \in {"TEXT", "PDF", "IMAGE"}
       /\ output.metadata.source_type = (IF is_pdf THEN "PDF" ELSE "TEXT")

\* C8 as amended: source_type is "PDF" for a PDF source and "Text" for a
\* text source.
C8_SourceType ==
    pc = "Done" =>
       /\ is_pdf => output.metadata.source_type = "PDF"
       /\ ~is_pdf => output.metadata.source_type = "Text"

\* an envelope returned for a text source
C8_Witness ==
    /\ pc = "Done"
    /\ ~is_pdf
    /\ source # ""
    /\ output.metadata.source_type = "Text"

\* C9 as stated: raw_text_preview is the first 300 characters of the text.
C9_First300 ==
    pc = "ParseReturned" =>
       /\ parsed.raw_text_preview = SubSeq(raw_text, 1, Min(Len(raw_text), 300))
       /\ Len(parsed.raw_text_preview) = Min(Len(raw_text), 300)

\* C9 as amended: raw_text_preview is the text itself when it has at most
\* 300 characters, else its first 300 characters followed by "...".
C9_PreviewWithEllipsis ==
    pc = "ParseReturned" =>
       /\ Len(raw_text) <= 300 => parsed.raw_text_preview = raw_text
       /\ Len(raw_text) > 300 =>
             /\ Len(parsed.raw_text_preview) = 303
             /\ SubSeq(parsed.raw_text_preview, 1, 300) = SubSeq(raw_text, 1, 300)
             /\ SubSeq(parsed.raw_text_preview, 301, 303) = "..."

\* a text of more than 300 characters, parsed
C9_Witness ==
    /\ pc = "ParseReturned"
    /\ Len(raw_text) > 300
    /\ Len(parsed.raw_text_preview) = 303

\* C10: items holds at most 10 entries: the first min(10, k) of the k
\* matches of the line-item pattern, in document order, with the commas
\* removed from unit_price and line_total.
C10_FirstTenMatches ==
    pc = "ParseReturned" =>
       LET ms == FindAll(item_pattern, 4, raw_text, FALSE)
           items == parsed.items
       IN  /\ Len(items) <= 10
           /\ Len(items) = Min(10, Len(ms))
           /\ \A i \in 1..Len(items) :
                 /\ items[i].description = PyStr(Strip(Group(raw_text, ms[i], 1).v))
                 /\ items[i].quantity = PyInt(IntOfDigits(Group(raw_text, ms[i], 2).v))
                 /\ items[i].unit_price = PyStr(RemoveCommas(Group(raw_text, ms[i], 3).v))
                 /\ items[i].line_total = PyStr(RemoveCommas(Group(raw_text, ms[i], 4).v))
                 /\ ~Contains(items[i].unit_price.v, ",")
                 /\ ~Contains(items[i].line_total.v, ",")
           /\ \A i, j \in 1..Len(items) : i < j => ms[i].e <= ms[j].s

\* a text with more than ten matches, one of them written with commas
C10_Witness ==
    /\ pc = "ParseReturned"
    /\ Len(FindAll(item_pattern, 4, raw_text, FALSE)) > 10
    /\ Len(parsed.items) = 10
    /\ \E i \in 1..10 : parsed.items[i].unit_price = PyStr("1200.00")

====
